---- MODULE Spec2Model ----
(***************************************************************************)
(* agda-tac: the read-eval loop of agda-tac/src/repl.rs driving one Agda   *)
(* session (agda_mode::agda::ReplState) over a line-oriented conversation  *)
(* with the external process.                                              *)
(*                                                                         *)
(* The REPL is a single task; it is cut into steps at its await points.    *)
(* The external process is a second party that answers, in the order       *)
(* received, the commands written to it, interleaves chatter with its      *)
(* answers, and may exit at any moment.                                    *)
(***************************************************************************)
EXTENDS Integers, Sequences, FiniteSets, TLC

(* ------------------------------ bounds -------------------------------- *)
\* input lines one run of the loop reads
MaxLines == 2
\* longest interaction-point list the process reports
MaxGoals == 2
\* interaction-point ids are 0..MaxId
MaxId == 1
\* unsolicited responses the process emits in one run
MaxChatter == 1

(* ------------------------------ repl.rs consts ------------------------ *)
\* (the back quotes around --plain are left out of the two help texts)
HELP == "help"
PLAIN_HELP == "You're in the plain REPL (with --plain flag)."
RICH_HELP ==
  "You're in the normal REPL, where there's completion, history command, hints and (in the future) colored output.\nThe rich mode is not compatible with Windows PowerShell ISE and Mintty(Cygwin, MinGW and (possibly, depends on your installation) git-bash).\nIf you're having problems with the rich mode, you may want to switch to the plain mode (restart agda-tac with --plain flag)."

(* ------------------------------ input --------------------------------- *)
Words == {"help", "reload", "exit", "foo"}
Blank == {" ", "\n"}
\* what read_line / readline hand back: a word with optional surrounding
\* blanks, or nothing at all (end of input in plain mode)
RawLines ==
  {<<>>} \cup {<<w, "\n">> : w \in Words}
                   \cup {<<" ", w, " ", "\n">> : w \in Words}

RECURSIVE TrimStart(_)
TrimStart(s) ==
  IF s # <<>> /\ Head(s) \in Blank THEN TrimStart(Tail(s)) ELSE s

RECURSIVE TrimEnd(_)
TrimEnd(s) ==
  IF s # <<>> /\ s[Len(s)] \in Blank THEN TrimEnd(SubSeq(s, 1, Len(s) - 1))
  ELSE s

\* str::trim
Trim(s) == TrimEnd(TrimStart(s))

(* ------------------------------ commands ------------------------------ *)
\* base.rs: the modifiers
Rewrite == {"AsIs", "Instantiated", "HeadNormal", "Simplified", "Normalised"}
ComputeMode == {"DefaultCompute", "IgnoreAbstract", "UseShowInstance"}
UseForce == {"WithForce", "WithoutForce"}
Remove == {"Remove", "Keep"}
\* Rewrite::default()
Rewrite_default == "Instantiated"

\* cmd.rs: highlighting level and method, and their Default impls
HighlightingLevel == {"None", "NonInteractive", "Interactive"}
HighlightingMethod == {"Direct", "Indirect"}
HighlightingLevel_default == "NonInteractive"
HighlightingMethod_default == "Direct"

\* Pn { offset, line, column }
Pn(o, l, c) == [offset |-> o, line |-> l, column |-> c]

\* Range::NoRange, which is Range::default(), and Range::Range
Range_NoRange == [tag |-> "NoRange", file |-> "", start |-> <<>>, end |-> <<>>]
Range_Range(file, start, end) ==
  [tag |-> "Range", file |-> file, start |-> <<start>>, end |-> <<end>>]

\* GoalInput::new, no_range and simple
GoalInput_new(id, range, code) == [id |-> id, range |-> range, code |-> code]
GoalInput_no_range(id, code) == GoalInput_new(id, Range_NoRange, code)
GoalInput_simple(ii) == GoalInput_no_range(ii, "")

\* a Cmd value: the variant and its fields, a field the variant does not
\* have being empty
CmdNone ==
  [tag |-> "", path |-> <<>>, flags |-> <<>>, backend |-> <<>>,
   rewrite |-> <<>>, search |-> <<>>, input |-> <<>>, code |-> <<>>,
   compute_mode |-> <<>>, remove |-> <<>>, show |-> <<>>, dunno |-> <<>>,
   force |-> <<>>, name |-> <<>>]

Cmd_unit(tag) == [CmdNone EXCEPT !.tag = tag]
Cmd_of_input(tag, input) == [CmdNone EXCEPT !.tag = tag, !.input = <<input>>]
Cmd_rewrite_input(tag, rewrite, input) ==
  [CmdNone EXCEPT !.tag = tag, !.rewrite = <<rewrite>>, !.input = <<input>>]

\* Cmd::goal_type(input)
Cmd_goal_type(input) == Cmd_rewrite_input("GoalType", Rewrite_default, input)

\* Cmd::give(input)
Cmd_give(input) ==
  [CmdNone EXCEPT !.tag = "Give", !.force = <<"WithoutForce">>,
                  !.input = <<input>>]

Cmd_Abort == Cmd_unit("Abort")

\* the file the session was started on
SessionFile == "x.agda"

\* Cmd::load_simple(path)
Cmd_load_simple(path) ==
  [CmdNone EXCEPT !.tag = "Load", !.path = <<path>>, !.flags = <<<<>>>>]

Cmd_Load == Cmd_load_simple(SessionFile)

(* ------------------------------ responses ----------------------------- *)
Ids == 0..MaxId
\* the type the loaded file gives each goal
GoalTypeOf(ii) == IF ii = 0 THEN "A -> B" ELSE "Nat"
ErrTexts == {"Parse error"}

RECURSIVE SeqsUpTo(_, _)
SeqsUpTo(S, n) ==
  IF n = 0 THEN {<<>>}
  ELSE LET shorter == SeqsUpTo(S, n - 1)
       IN  shorter \cup {Append(s, x) : s \in shorter, x \in S}

\* the interaction points of a file: distinct ids, in any order
IpLists ==
  {s \in SeqsUpTo(Ids, MaxGoals) :
     \A i, j \in 1..Len(s) : i # j => s[i] # s[j]}

\* one decoded response line; unused fields are empty
MkResp(kind, info, goal, ips, ip, text) ==
  [kind |-> kind, info |-> info, goal_info |-> goal,
   interaction_points |-> ips, interaction_point |-> ip, text |-> text]

R_Status == MkResp("Status", "", "", <<>>, <<>>, "")
R_DoneAborting == MkResp("DoneAborting", "", "", <<>>, <<>>, "")
R_InteractionPoints(ips) == MkResp("InteractionPoints", "", "", ips, <<>>, "")
R_Version == MkResp("DisplayInfo", "Version", "", <<>>, <<>>, "2.6")
R_Error(e) == MkResp("DisplayInfo", "Error", "", <<>>, <<>>, e)
R_GoalSpecific(ii, goal, ty) ==
  MkResp("DisplayInfo", "GoalSpecific", goal, <<>>, <<ii>>, ty)

\* a line of output that is not the JSON of any Resp
R_Malformed == MkResp("Malformed", "", "", <<>>, <<>>, "")

\* what the process may interleave with its answers
ChatterResps ==
  {R_Status, R_GoalSpecific(0, "InferredType", "Set"), R_Malformed}

(* ------------------------------ printing ------------------------------ *)
\* one println!/eprintln!: the stream, the format string and its arguments
Print_line(stream, fmt, id, text) ==
  [stream |-> stream, fmt |-> fmt, id |-> id, text |-> text]

(* ------------------------------ state --------------------------------- *)
VARIABLES
  plain,      \* repl's `plain` argument
  pc,         \* where the REPL task stands
  lineTxt,    \* `trim`, the line being processed
  nlines,     \* lines read so far
  sess,       \* session lifecycle: Running, Aborting, Stopped
  written,    \* every command written to the process, in order
  inq,        \* commands the process has received and not yet answered
  out,        \* response lines the process wrote and the client has not read
  exited,     \* the process has exited: its output ends after `out`
  chatter,    \* unsolicited responses emitted so far
  output,     \* what the REPL printed
  goals,      \* reload: the value next_goals returned
  iis,        \* list_goals: the slice it iterates
  k,          \* list_goals: position of the for loop, 1-based
  pending,    \* the written command whose answer has not been read yet
  abortAcked, \* DoneAborting (or the end of the stream) has been read after Abort
  sentIps,    \* the InteractionPoints lists the process sent
  sentErr,    \* the error texts the process sent
  markW,      \* Len(written) when the current line started
  markO,      \* Len(output) when the current line started
  encIn,      \* encoder: the IOTCM value handed to to_string
  encOut,     \* encoder: the text to_string returned, as lexemes
  decIn,      \* decoder: the JSON value handed to the deserializer
  decOut      \* decoder: the Result it returned

vars == <<plain, pc, lineTxt, nlines, sess, written, inq, out, exited, chatter,
          output, goals, iis, k, pending, abortAcked, sentIps, sentErr,
          markW, markO, encIn, encOut, decIn, decOut>>

procVars == <<inq, out, exited, chatter, sentIps, sentErr>>
replLocals == <<goals, iis, k>>
marks == <<markW, markO>>
\* the encoder's and the decoder's own state; the REPL never touches it
pureVars == <<encIn, encOut, decIn, decOut>>

NoGoals == [st |-> "none", iis |-> <<>>, err |-> ""]

\* the REPL before its first prompt, the session started
ReplInit ==
  /\ pc = "prompt"
  /\ lineTxt = <<>>
  /\ nlines = 0
  /\ sess = "Running"
  /\ written = <<>>
  /\ inq = <<>>
  /\ out = <<>>
  /\ exited = FALSE
  /\ chatter = 0
  /\ output = <<>>
  /\ goals = NoGoals
  /\ iis = <<>>
  /\ k = 1
  /\ pending = "None"
  /\ abortAcked = FALSE
  /\ sentIps = <<>>
  /\ sentErr = <<>>
  /\ markW = 0
  /\ markO = 0

\* nothing encoded, nothing decoded
PureIdle ==
  /\ encIn = <<>>
  /\ encOut = [cmd |-> <<>>, line |-> <<>>]
  /\ decIn = <<>>
  /\ decOut = [ok |-> FALSE, val |-> <<"not decoded">>]

Init ==
  /\ plain \in BOOLEAN
  /\ ReplInit
  /\ PureIdle

(* ------------------------------ session ------------------------------- *)
\* ReplState::command: what writing one command line comes to.  A stopped
\* session refuses the call; a process that has exited breaks the pipe.
command_status ==
  IF sess = "Stopped" THEN "LogicError"
  ELSE IF exited THEN "IOError"
  ELSE "Ok"

\* ReplState::command, the successful write: one line, flushed at once
command_write(c) ==
  /\ written' = Append(written, c)
  /\ inq' = Append(inq, c)
  /\ pending' = c.tag

\* ReplState::next_goals, after its reload has been issued: the response
\* that ends the wait, every other one being discarded
next_goals_on(r) ==
  IF r.kind = "InteractionPoints"
    THEN [st |-> "ok", iis |-> r.interaction_points, err |-> ""]
  ELSE IF r.kind = "DisplayInfo" /\ r.info = "Error"
    THEN [st |-> "err", iis |-> <<>>, err |-> r.text]
  ELSE NoGoals

\* ReplState::next_display_info: non-DisplayInfo responses are discarded
IsDisplayInfo(r) == r.kind = "DisplayInfo"

\* ReplState::next_display_info: a line that does not decode is handed to
\* the caller as Err(DecodeError)
IsDecodeError(r) == r.kind = "Malformed"

\* the conversation: r is the response that answers a command of kind p
\* (Load: the interaction points or the error; GoalType: CurrentGoal;
\* Abort: DoneAborting)
Answers(r, p) ==
  \/ /\ p = "Load"
     /\ \/ r.kind = "InteractionPoints"
        \/ r.kind = "DisplayInfo" /\ r.info = "Error"
  \/ /\ p = "GoalType"
     /\ r.kind = "DisplayInfo" /\ r.info = "GoalSpecific"
     /\ r.goal_info = "CurrentGoal"
  \/ p = "Abort" /\ r.kind = "DoneAborting"

\* ReplState::next_response: the oldest unread line leaves the stream
next_response ==
  /\ out' = Tail(out)
  /\ pending' = IF Answers(Head(out), pending) THEN "None" ELSE pending
  /\ abortAcked' = (abortAcked \/ Head(out).kind = "DoneAborting")

\* the end of the response stream, seen by a read
StreamEnd == out = <<>> /\ exited

(* ------------------------------ repl.rs ------------------------------- *)
\* line with the result of reload dropped instead of propagated by `?`
line_ret_swallow(r) == "Ok(false)"

\* line: `reload(agda).await?; Ok(false)`
line_ret(r) == IF r = "Ok" THEN "Ok(false)" ELSE "Err"

\* the loop running the failed line again instead of returning its error
repl_next_retry(lr) ==
  IF lr = "Err" THEN "line"
  ELSE IF lr = "Ok(true)" THEN "done"
  ELSE "prompt"

\* repl: `if line(..).await? { break Ok(()) }`
repl_next(lr) ==
  IF lr = "Err" THEN "failed"
  ELSE IF lr = "Ok(true)" THEN "done"
  ELSE "prompt"

\* reload has returned r to line, line to the loop
Return(r) == pc' = repl_next(line_ret(r))

\* reload, Ok branch without the is_empty() report
reload_ok_output_quiet(s) == <<Print_line("stdout", "Goals:", <<>>, "")>>

\* reload, Ok branch: println!("Goals:") and, for no goals, "No goals."
reload_ok_output(s) ==
  <<Print_line("stdout", "Goals:", <<>>, "")>>
    \o (IF s = <<>> THEN <<Print_line("stdout", "No goals.", <<>>, "")>>
        ELSE <<>>)

\* reload, Err branch that drops err_msg
reload_err_output_header(e) == <<Print_line("stderr", "Errors:", <<>>, "")>>

\* reload, Err branch: eprintln!("Errors:"); eprintln!("{}", err_msg)
reload_err_output(e) ==
  <<Print_line("stderr", "Errors:", <<>>, ""),
    Print_line("stderr", "{}", <<>>, e)>>

\* the loop stuck on the first element
GoalAt_first(s, i) == s[1]

\* the loop handing out positions instead of elements
GoalAt_index(s, i) == i - 1

\* list_goals: `for &ii in iis`, the element the loop stands at
GoalAt(s, i) == s[i]

\* the pattern without its inner goal_info match
IsCurrentGoal_anyGoalSpecific(r) == r.info = "GoalSpecific"

\* list_goals: the `if let GoalSpecific { goal_info: CurrentGoal { .. }, .. }`
IsCurrentGoal(r) == r.info = "GoalSpecific" /\ r.goal_info = "CurrentGoal"

\* repl: one more turn of the loop, `printed` being the output so far;
\* the frames of the turn before are gone
NextTurn(printed) ==
  /\ nlines' = nlines + 1
  /\ output' = printed
  /\ markW' = Len(written)
  /\ markO' = Len(printed)
  /\ goals' = NoGoals
  /\ iis' = <<>>
  /\ k' = 1

\* repl: the turn got a line, `trim`
StartLine(trim, printed) ==
  /\ lineTxt' = trim
  /\ NextTurn(printed)

\* repl, plain mode: prompt, read_line, trim, help or line
PlainRead ==
  /\ plain /\ pc = "prompt" /\ nlines < MaxLines
  /\ \E raw \in RawLines :
       LET trim == Trim(raw)
           prompted == Append(output, Print_line("stdout", "> ", <<>>, ""))
       IN  IF trim = <<HELP>>
             THEN /\ StartLine(trim, Append(prompted,
                                 Print_line("stdout", "{}", <<>>, PLAIN_HELP)))
                  /\ pc' = "prompt"
             ELSE /\ StartLine(trim, prompted)
                  /\ pc' = "line"
  /\ UNCHANGED <<plain, sess, written, pending, abortAcked>>
  /\ UNCHANGED procVars
  /\ UNCHANGED pureVars

\* repl, plain mode: flush or read_line fails
PlainReadErr ==
  /\ plain /\ pc = "prompt" /\ nlines < MaxLines
  /\ pc' = "failed"
  /\ NextTurn(Append(output, Print_line("stdout", "> ", <<>>, "")))
  /\ UNCHANGED <<plain, lineTxt, sess, written, pending, abortAcked>>
  /\ UNCHANGED procVars
  /\ UNCHANGED pureVars

\* repl, rich mode: readline gives Ok(input)
RichReadOk ==
  /\ ~plain /\ pc = "prompt" /\ nlines < MaxLines
  /\ \E raw \in RawLines :
       LET trim == Trim(raw)
       IN  IF trim = <<HELP>>
             THEN /\ StartLine(trim, Append(output,
                                 Print_line("stdout", "{}", <<>>, RICH_HELP)))
                  /\ pc' = "prompt"
             ELSE /\ StartLine(trim, output)
                  /\ pc' = "line"
  /\ UNCHANGED <<plain, sess, written, pending, abortAcked>>
  /\ UNCHANGED procVars
  /\ UNCHANGED pureVars

\* repl, rich mode: Err(ReadlineError::Interrupted) => {}
RichInterrupted ==
  /\ ~plain /\ pc = "prompt" /\ nlines < MaxLines
  /\ NextTurn(output)
  /\ UNCHANGED <<plain, pc, lineTxt, sess, written, pending, abortAcked>>
  /\ UNCHANGED procVars
  /\ UNCHANGED pureVars

\* repl, rich mode: Err(ReadlineError::Eof) => break Ok(())
RichEof ==
  /\ ~plain /\ pc = "prompt" /\ nlines < MaxLines
  /\ NextTurn(Append(output,
                Print_line("stdout", "Interrupted by Ctrl-d", <<>>, "")))
  /\ pc' = "done"
  /\ UNCHANGED <<plain, lineTxt, sess, written, pending, abortAcked>>
  /\ UNCHANGED procVars
  /\ UNCHANGED pureVars

\* repl, rich mode: Err(err) => break Ok(())
RichErr ==
  /\ ~plain /\ pc = "prompt" /\ nlines < MaxLines
  /\ NextTurn(Append(output, Print_line("stdout", "Error: {:?}", <<>>, "err")))
  /\ pc' = "done"
  /\ UNCHANGED <<plain, lineTxt, sess, written, pending, abortAcked>>
  /\ UNCHANGED procVars
  /\ UNCHANGED pureVars

\* line -> reload -> next_goals: the reload is issued
ReloadCall ==
  /\ pc = "line"
  /\ IF command_status = "Ok"
       THEN /\ command_write(Cmd_Load)
            /\ pc' = "next_goals"
       ELSE /\ Return(command_status)
            /\ UNCHANGED <<written, inq, pending>>
  /\ UNCHANGED <<plain, lineTxt, nlines, sess, output, abortAcked>>
  /\ UNCHANGED <<out, exited, chatter, sentIps, sentErr, replLocals, marks>>
  /\ UNCHANGED pureVars

\* reload: next_goals reads one response; the match on its result
ReloadRead ==
  /\ pc = "next_goals" /\ out # <<>>
  /\ next_response
  /\ LET res == next_goals_on(Head(out))
     IN  CASE res.st = "ok" ->
                /\ goals' = res
                /\ iis' = res.iis
                /\ k' = 1
                /\ output' = output \o reload_ok_output(res.iis)
                /\ pc' = "list_goals"
           [] res.st = "err" ->
                /\ goals' = res
                /\ output' = output \o reload_err_output(res.err)
                /\ pc' = "finish"
                /\ UNCHANGED <<iis, k>>
           [] OTHER ->
                UNCHANGED <<goals, iis, k, output, pc>>
  /\ UNCHANGED <<plain, lineTxt, nlines, sess, written>>
  /\ UNCHANGED <<inq, exited, chatter, sentIps, sentErr, marks>>
  /\ UNCHANGED pureVars

\* reload: next_goals meets the end of the stream; `?` unwinds
ReloadEof ==
  /\ pc = "next_goals" /\ StreamEnd
  /\ Return("IOError")
  /\ UNCHANGED <<plain, lineTxt, nlines, sess, written, output, pending,
                 abortAcked>>
  /\ UNCHANGED <<procVars, replLocals, marks>>
  /\ UNCHANGED pureVars

\* list_goals: command(Cmd::goal_type(GoalInput::simple(ii)))
ListGoalsCommand ==
  /\ pc = "list_goals" /\ k <= Len(iis)
  /\ IF command_status = "Ok"
       THEN /\ command_write(Cmd_goal_type(GoalInput_simple(GoalAt(iis, k))))
            /\ pc' = "wait_goal"
       ELSE /\ Return(command_status)
            /\ UNCHANGED <<written, inq, pending>>
  /\ UNCHANGED <<plain, lineTxt, nlines, sess, output, abortAcked>>
  /\ UNCHANGED <<out, exited, chatter, sentIps, sentErr, replLocals, marks>>
  /\ UNCHANGED pureVars

\* list_goals: next_display_info returns a decode error; `?` unwinds
ListGoalsDecodeErr ==
  /\ pc = "wait_goal" /\ out # <<>> /\ IsDecodeError(Head(out))
  /\ next_response
  /\ Return("DecodeError")
  /\ UNCHANGED <<plain, lineTxt, nlines, sess, written, output>>
  /\ UNCHANGED <<inq, exited, chatter, sentIps, sentErr, replLocals, marks>>
  /\ UNCHANGED pureVars

\* list_goals: the inner loop reads one response through next_display_info
ListGoalsRead ==
  /\ pc = "wait_goal" /\ out # <<>> /\ ~IsDecodeError(Head(out))
  /\ next_response
  /\ LET r == Head(out)
     IN  IF IsDisplayInfo(r) /\ IsCurrentGoal(r)
           THEN /\ output' = Append(output,
                     Print_line("stdout", "?{:?}: {}", <<GoalAt(iis, k)>>, r.text))
                /\ k' = k + 1
                /\ pc' = "list_goals"
           ELSE UNCHANGED <<output, k, pc>>
  /\ UNCHANGED <<plain, lineTxt, nlines, sess, written, goals, iis>>
  /\ UNCHANGED <<inq, exited, chatter, sentIps, sentErr, marks>>
  /\ UNCHANGED pureVars

\* the wait going on at the end of the stream instead of unwinding
ListGoalsEof_retry ==
  /\ pc = "wait_goal" /\ StreamEnd
  /\ pc' = "wait_goal"
  /\ UNCHANGED <<plain, lineTxt, nlines, sess, written, output, pending,
                 abortAcked>>
  /\ UNCHANGED <<procVars, replLocals, marks>>
  /\ UNCHANGED pureVars

\* list_goals: next_display_info meets the end of the stream; `?` unwinds
ListGoalsEof ==
  /\ pc = "wait_goal" /\ StreamEnd
  /\ Return("IOError")
  /\ UNCHANGED <<plain, lineTxt, nlines, sess, written, output, pending,
                 abortAcked>>
  /\ UNCHANGED <<procVars, replLocals, marks>>
  /\ UNCHANGED pureVars

\* list_goals: the for loop is over, Ok(())
ListGoalsReturn ==
  /\ pc = "list_goals" /\ k > Len(iis)
  /\ pc' = "finish"
  /\ UNCHANGED <<plain, lineTxt, nlines, sess, written, output, pending,
                 abortAcked>>
  /\ UNCHANGED <<procVars, replLocals, marks>>
  /\ UNCHANGED pureVars

\* finish: command(Cmd::Abort) and, right after it, the call of shutdown
finish ==
  /\ pc = "finish"
  /\ IF command_status = "Ok"
       THEN /\ command_write(Cmd_Abort)
            /\ sess' = "Aborting"
            /\ pc' = "shutdown"
       ELSE /\ Return(command_status)
            /\ UNCHANGED <<written, inq, pending, sess>>
  /\ UNCHANGED <<plain, lineTxt, nlines, output, abortAcked>>
  /\ UNCHANGED <<out, exited, chatter, sentIps, sentErr, replLocals, marks>>
  /\ UNCHANGED pureVars

\* ReplState::shutdown: responses are consumed until DoneAborting
shutdown ==
  /\ pc = "shutdown" /\ out # <<>>
  /\ next_response
  /\ IF Head(out).kind = "DoneAborting"
       THEN /\ sess' = "Stopped"
            /\ Return("Ok")
       ELSE UNCHANGED <<sess, pc>>
  /\ UNCHANGED <<plain, lineTxt, nlines, written, output>>
  /\ UNCHANGED <<inq, exited, chatter, sentIps, sentErr, replLocals, marks>>
  /\ UNCHANGED pureVars

\* ReplState::shutdown: the stream ended, the process is gone
shutdown_eof ==
  /\ pc = "shutdown" /\ StreamEnd
  /\ sess' = "Stopped"
  /\ abortAcked' = TRUE
  /\ Return("Ok")
  /\ UNCHANGED <<plain, lineTxt, nlines, written, output, pending>>
  /\ UNCHANGED <<procVars, replLocals, marks>>
  /\ UNCHANGED pureVars

\* ReplState::shutdown: closing the stream or waiting for the exit fails
shutdown_err ==
  /\ pc = "shutdown" /\ StreamEnd
  /\ Return("IOError")
  /\ UNCHANGED <<plain, lineTxt, nlines, sess, written, output, pending,
                 abortAcked>>
  /\ UNCHANGED <<procVars, replLocals, marks>>
  /\ UNCHANGED pureVars

(* ------------------------------ the process --------------------------- *)
replVars == <<plain, pc, lineTxt, nlines, sess, written, output, pending,
              abortAcked, goals, iis, k, markW, markO>>

\* the process answers the oldest command it has not answered
ProcAnswer ==
  /\ ~exited /\ inq # <<>>
  /\ inq' = Tail(inq)
  /\ LET c == Head(inq)
     IN  CASE c.tag = "Load" ->
                \/ \E ips \in IpLists :
                     /\ out' = Append(out, R_InteractionPoints(ips))
                     /\ sentIps' = Append(sentIps, ips)
                     /\ UNCHANGED sentErr
                \/ \E e \in ErrTexts :
                     /\ out' = Append(out, R_Error(e))
                     /\ sentErr' = Append(sentErr, e)
                     /\ UNCHANGED sentIps
           [] c.tag = "GoalType" ->
                /\ out' = Append(out,
                            R_GoalSpecific(c.input[1].id, "CurrentGoal",
                                           GoalTypeOf(c.input[1].id)))
                /\ UNCHANGED <<sentIps, sentErr>>
           [] OTHER ->
                /\ out' = Append(out, R_DoneAborting)
                /\ UNCHANGED <<sentIps, sentErr>>
  /\ UNCHANGED <<exited, chatter>>
  /\ UNCHANGED replVars
  /\ UNCHANGED pureVars

\* the process interleaves status and informational chatter
ProcChatter ==
  /\ ~exited /\ chatter < MaxChatter
  /\ chatter' = chatter + 1
  /\ \E r \in ChatterResps : out' = Append(out, r)
  /\ UNCHANGED <<inq, exited, sentIps, sentErr>>
  /\ UNCHANGED replVars
  /\ UNCHANGED pureVars

\* the process exits; its output ends
ProcExit ==
  /\ ~exited
  /\ exited' = TRUE
  /\ UNCHANGED <<inq, out, chatter, sentIps, sentErr>>
  /\ UNCHANGED replVars
  /\ UNCHANGED pureVars

Next ==
  \/ PlainRead \/ PlainReadErr
  \/ RichReadOk \/ RichInterrupted \/ RichEof \/ RichErr
  \/ ReloadCall \/ ReloadRead \/ ReloadEof
  \/ ListGoalsCommand \/ ListGoalsRead \/ ListGoalsDecodeErr
  \/ ListGoalsEof \/ ListGoalsReturn
  \/ finish \/ shutdown \/ shutdown_eof \/ shutdown_err
  \/ ProcAnswer \/ ProcChatter \/ ProcExit

Spec == Init /\ [][Next]_vars

\* list_goals and finish as the single task drives them: a step that can be
\* taken is taken (the task is polled whenever its read or write can go on)
ListingStep ==
  \/ ListGoalsCommand \/ ListGoalsRead \/ ListGoalsDecodeErr
  \/ ListGoalsEof \/ ListGoalsReturn
  \/ finish

\* the process settles the GoalType query it has received: it answers it or
\* it exits
ProcSettlesQuery ==
  /\ inq # <<>> /\ Head(inq).tag = "GoalType"
  /\ ProcAnswer \/ ProcExit

FairSpec == Spec /\ WF_vars(ListingStep) /\ WF_vars(ProcSettlesQuery)

TypeOK ==
  /\ pc \in {"prompt", "line", "next_goals", "list_goals", "wait_goal",
             "finish", "shutdown", "done", "failed"}
  /\ sess \in {"Running", "Aborting", "Stopped"}
  /\ k \in 1..(MaxGoals + 2)
  /\ nlines \in 0..(MaxLines + 1)

(* ------------------------------ encoder (cmd.rs) ---------------------- *)
\* Text is kept as a sequence of lexemes: parentheses, blanks, identifiers,
\* and one lexeme for each number, string or list argument.
Sp == " "

\* {:?} of a String without characters to escape
Quote(str) == "\"" \o str \o "\""

\* {:?} of a u32
DebugU32(n) == ToString(n)

RECURSIVE JoinQuoted(_)
JoinQuoted(l) ==
  IF l = <<>> THEN ""
  ELSE IF Len(l) = 1 THEN Quote(l[1])
  ELSE Quote(l[1]) \o ", " \o JoinQuoted(Tail(l))

\* {:?} of a Vec<String>
DebugStrings(l) == "[" \o JoinQuoted(l) \o "]"

\* {:?} of HaskellBool::from(b)
HaskellBool(b) == IF b THEN "True" ELSE "False"

\* the text a sequence of lexemes stands for
RECURSIVE Join(_)
Join(ts) == IF ts = <<>> THEN "" ELSE Head(ts) \o Join(Tail(ts))

\* impl Display for Pn: "(Pn () {:?} {:?} {:?})"
Pn_fmt(p) ==
  <<"(", "Pn", Sp, "(", ")", Sp, DebugU32(p.offset), Sp, DebugU32(p.line), Sp,
    DebugU32(p.column), ")">>

\* impl Display for Range
Range_fmt(r) ==
  IF r.tag = "NoRange" THEN <<"noRange">>
  ELSE <<"(", "intervalsToRange", Sp, "(", "Just", Sp, "(", "mkAbsolute", Sp,
         Quote(r.file), ")", ")", Sp, "[", "Interval", Sp>>
       \o Pn_fmt(r.start[1]) \o <<Sp>> \o Pn_fmt(r.end[1]) \o <<"]", ")">>

\* GoalInput's Display with the range left out
GoalInput_fmt_norange(g) == <<DebugU32(g.id), Sp, Quote(g.code)>>

\* impl Display for GoalInput: "{:?} {} {:?}"
GoalInput_fmt(g) ==
  <<DebugU32(g.id), Sp>> \o Range_fmt(g.range) \o <<Sp, Quote(g.code)>>

RECURSIVE SpaceBefore(_)
\* every argument with a blank in front of it
SpaceBefore(args) ==
  IF args = <<>> THEN <<>>
  ELSE <<Sp>> \o Head(args) \o SpaceBefore(Tail(args))

\* "( name arg .. arg )"
App(name, args) == <<"(", Sp, name>> \o SpaceBefore(args) \o <<Sp, ")">>

\* "( name arg .. arg " : the format string of TokenHighlighting
AppOpen(name, args) == <<"(", Sp, name>> \o SpaceBefore(args) \o <<Sp>>

\* the variants that format as "( name {:?} {} )" over a rewrite and a goal
RewriteInputName ==
  [SolveOne |-> "Cmd_solveOne", Context |-> "Cmd_context",
   HelperFunction |-> "Cmd_helper_function", Infer |-> "Cmd_infer",
   GoalType |-> "Cmd_goal_type", ElaborateGive |-> "Cmd_elaborate_give",
   GoalTypeContext |-> "Cmd_goal_type_context",
   GoalTypeContextInfer |-> "Cmd_goal_type_context_infer",
   GoalTypeContextCheck |-> "Cmd_goal_type_context_check",
   ShowModuleContents |-> "Cmd_show_module_contents"]

\* the variants that format as "( name {} )" over a goal
InputName ==
  [AutoOne |-> "Cmd_autoOne", Highlight |-> "Cmd_highlight",
   Refine |-> "Cmd_refine", MakeCase |-> "Cmd_make_case",
   WhyInScope |-> "Cmd_why_in_scope"]

\* the variants that format as a bare identifier
UnitName ==
  [Constraints |-> "Cmd_constraints", Metas |-> "Cmd_metas",
   AutoAll |-> "Cmd_autoAll", ToggleImplicitArgs |-> "ToggleImplicitArgs",
   ShowVersion |-> "Cmd_show_version", Abort |-> "Cmd_abort"]

\* impl Display for Cmd
Cmd_fmt(c) ==
  CASE c.tag = "Load" ->
         App("Cmd_load", <<<<Quote(c.path[1])>>, <<DebugStrings(c.flags[1])>>>>)
    [] c.tag = "Compile" ->
         App("Cmd_compile", <<<<Quote(c.backend[1])>>, <<Quote(c.path[1])>>,
                              <<DebugStrings(c.flags[1])>>>>)
    [] c.tag \in DOMAIN UnitName -> <<UnitName[c.tag]>>
    [] c.tag = "ShowModuleContentsToplevel" ->
         App("Cmd_show_module_contents_toplevel",
             <<<<c.rewrite[1]>>, <<Quote(c.search[1])>>>>)
    [] c.tag = "SearchAboutToplevel" ->
         App("Cmd_search_about_toplevel",
             <<<<c.rewrite[1]>>, <<Quote(c.search[1])>>>>)
    [] c.tag = "SolveAll" -> App("Cmd_solveAll", <<<<c.rewrite[1]>>>>)
    [] c.tag \in DOMAIN RewriteInputName ->
         App(RewriteInputName[c.tag],
             <<<<c.rewrite[1]>>, GoalInput_fmt(c.input[1])>>)
    [] c.tag \in DOMAIN InputName ->
         App(InputName[c.tag], <<GoalInput_fmt(c.input[1])>>)
    [] c.tag = "InferToplevel" ->
         App("Cmd_infer_toplevel", <<<<c.rewrite[1]>>, <<Quote(c.code[1])>>>>)
    [] c.tag = "ComputeToplevel" ->
         App("Cmd_compute_toplevel",
             <<<<c.compute_mode[1]>>, <<Quote(c.code[1])>>>>)
    [] c.tag = "LoadHighlightingInfo" ->
         App("Cmd_load_highlighting_info", <<<<Quote(c.path[1])>>>>)
    [] c.tag = "TokenHighlighting" ->
         AppOpen("Cmd_tokenHighlighting",
                 <<<<Quote(c.path[1])>>, <<c.remove[1]>>>>)
    [] c.tag = "ShowImplicitArgs" ->
         App("ShowImplicitArgs", <<<<HaskellBool(c.show[1])>>>>)
    [] c.tag = "Give" ->
         App("Cmd_give", <<<<c.force[1]>>, GoalInput_fmt(c.input[1])>>)
    [] c.tag = "Intro" ->
         App("Cmd_intro",
             <<<<HaskellBool(c.dunno[1])>>, GoalInput_fmt(c.input[1])>>)
    [] c.tag = "RefineOrIntro" ->
         App("Cmd_refine_or_intro",
             <<<<HaskellBool(c.dunno[1])>>, GoalInput_fmt(c.input[1])>>)
    [] c.tag = "Compute" ->
         App("Cmd_compute",
             <<<<c.compute_mode[1]>>, GoalInput_fmt(c.input[1])>>)
    [] c.tag = "WhyInScopeToplevel" ->
         App("Cmd_why_in_scope_toplevel", <<<<Quote(c.name[1])>>>>)

\* IOTCM::new
IOTCM_new(level, file, method, command) ==
  [level |-> level, file |-> file, method |-> method, command |-> command]

\* IOTCM::simple
IOTCM_simple(file, command) ==
  IOTCM_new(HighlightingLevel_default, file, HighlightingMethod_default,
            command)

\* the envelope with level and method written in the struct's field order
IOTCM_fmt_fieldorder(i) ==
  <<"IOTCM", Sp, i.level, Sp, Quote(i.file), Sp, i.method, Sp>>
    \o Cmd_fmt(i.command)

\* impl Display for IOTCM: "IOTCM {:?} {:?} {:?} {}"
IOTCM_fmt(i) ==
  <<"IOTCM", Sp, Quote(i.file), Sp, i.level, Sp, i.method, Sp>>
    \o Cmd_fmt(i.command)

\* IOTCM::to_string: format!("{}\n", self)
IOTCM_to_string(i) == IOTCM_fmt(i) \o <<"\n">>

(* the values the encoder is run on *)
EncIds == {0, 233}
EncCodes == {"a"}
EncPaths == {"x.agda"}
EncFlags == {<<>>, <<"-v", "--safe">>}
EncRanges == {Range_NoRange, Range_Range("x.agda", Pn(1, 1, 1), Pn(5, 1, 5))}
EncGoalInputs ==
  {GoalInput_new(id, r, code) : id \in EncIds, r \in EncRanges,
                                code \in EncCodes}

EncCmds ==
  {[CmdNone EXCEPT !.tag = "Load", !.path = <<p>>, !.flags = <<fl>>] :
      p \in EncPaths, fl \in EncFlags}
  \cup {[CmdNone EXCEPT !.tag = "Compile", !.backend = <<"GHC">>,
                        !.path = <<p>>, !.flags = <<fl>>] :
      p \in EncPaths, fl \in EncFlags}
  \cup {Cmd_unit(t) : t \in DOMAIN UnitName}
  \cup {[CmdNone EXCEPT !.tag = t, !.rewrite = <<rw>>, !.search = <<c>>] :
      t \in {"ShowModuleContentsToplevel", "SearchAboutToplevel"},
      rw \in Rewrite, c \in EncCodes}
  \cup {[CmdNone EXCEPT !.tag = "SolveAll", !.rewrite = <<rw>>] : rw \in Rewrite}
  \cup {Cmd_rewrite_input(t, rw, g) :
      t \in DOMAIN RewriteInputName, rw \in Rewrite, g \in EncGoalInputs}
  \cup {Cmd_of_input(t, g) : t \in DOMAIN InputName, g \in EncGoalInputs}
  \cup {[CmdNone EXCEPT !.tag = "InferToplevel", !.rewrite = <<rw>>,
                        !.code = <<c>>] : rw \in Rewrite, c \in EncCodes}
  \cup {[CmdNone EXCEPT !.tag = "ComputeToplevel", !.compute_mode = <<cm>>,
                        !.code = <<c>>] : cm \in ComputeMode, c \in EncCodes}
  \cup {[CmdNone EXCEPT !.tag = "LoadHighlightingInfo", !.path = <<p>>] :
      p \in EncPaths}
  \cup {[CmdNone EXCEPT !.tag = "TokenHighlighting", !.path = <<p>>,
                        !.remove = <<rm>>] : p \in EncPaths, rm \in Remove}
  \cup {[CmdNone EXCEPT !.tag = "ShowImplicitArgs", !.show = <<b>>] :
      b \in BOOLEAN}
  \cup {[CmdNone EXCEPT !.tag = "Give", !.force = <<f>>, !.input = <<g>>] :
      f \in UseForce, g \in EncGoalInputs}
  \cup {Cmd_give(g) : g \in EncGoalInputs}
  \cup {[CmdNone EXCEPT !.tag = t, !.dunno = <<b>>, !.input = <<g>>] :
      t \in {"Intro", "RefineOrIntro"}, b \in BOOLEAN, g \in EncGoalInputs}
  \cup {[CmdNone EXCEPT !.tag = "Compute", !.compute_mode = <<cm>>,
                        !.input = <<g>>] :
      cm \in ComputeMode, g \in EncGoalInputs}
  \cup {[CmdNone EXCEPT !.tag = "WhyInScopeToplevel", !.name = <<c>>] :
      c \in EncCodes}

\* a call of IOTCM::new or of IOTCM::simple
EncCalls ==
  {[ctor |-> "new", level |-> <<l>>, method |-> <<m>>, file |-> f,
    command |-> c] :
      l \in HighlightingLevel, m \in HighlightingMethod, f \in EncPaths,
      c \in EncCmds}
  \cup {[ctor |-> "simple", level |-> <<>>, method |-> <<>>, file |-> f,
         command |-> c] : f \in EncPaths, c \in EncCmds}

\* the IOTCM value a call constructs
Construct(call) ==
  IF call.ctor = "simple" THEN IOTCM_simple(call.file, call.command)
  ELSE IOTCM_new(call.level[1], call.file, call.method[1], call.command)

NotEncoded == [cmd |-> <<>>, line |-> <<>>]

EncInit ==
  /\ encIn \in EncCalls
  /\ encOut = NotEncoded
  /\ decIn = <<>>
  /\ decOut = [ok |-> FALSE, val |-> <<"not decoded">>]
  /\ plain = TRUE
  /\ ReplInit

\* the command and its envelope are formatted
Encode ==
  /\ encOut = NotEncoded
  /\ encOut' = [cmd |-> Cmd_fmt(Construct(encIn).command),
                line |-> IOTCM_to_string(Construct(encIn))]
  /\ UNCHANGED <<encIn, decIn, decOut>>
  /\ UNCHANGED <<replVars, procVars>>

EncNext == Encode

SpecEnc == EncInit /\ [][EncNext]_vars

(* ------------------------------ decoder (resp.rs) --------------------- *)
\* JSON values
JNull == [t |-> "null", v |-> <<>>]
JBool(b) == [t |-> "bool", v |-> b]
JNum(n) == [t |-> "num", v |-> n]
JStr(str) == [t |-> "str", v |-> str]
JArr(items) == [t |-> "arr", v |-> items]
\* an object: the function from its keys to its values
JObj(members) == [t |-> "obj", v |-> members]

\* one field of a struct or struct variant: its name in the source, its
\* name on the wire after the serde rename, its type
Field(rust, wire, ty) == [rust |-> rust, wire |-> wire, ty |-> ty]

\* Status, #[serde(rename_all = "camelCase")]
StatusFields ==
  <<Field("show_implicit_arguments", "showImplicitArguments", "bool"),
    Field("checked", "checked", "bool")>>

\* enum MakeCase: unit variants, which serde writes as strings
MakeCaseVariants == {"Function", "ExtendedLambda"}

\* DisplayInfo with a payload required of Constraints
DisplayInfoFields_strict ==
  [CompilationOk |-> <<Field("warnings", "warnings", "String"),
                       Field("errors", "errors", "String")>>,
   Constraints |-> <<Field("constraints", "constraints", "VecString")>>,
   AllGoalsWarnings |-> <<Field("goals", "goals", "unit"),
                          Field("warnings", "warnings", "String"),
                          Field("errors", "errors", "String")>>,
   Time |-> <<Field("time", "time", "String")>>,
   IntroNotFound |-> <<>>,
   IntroConstructorUnknown |-> <<>>,
   Auto |-> <<Field("info", "info", "String")>>,
   ModuleContents |-> <<>>,
   SearchAbout |-> <<Field("search", "search", "String")>>,
   WhyInScope |-> <<>>,
   NormalForm |-> <<>>,
   InferredType |-> <<>>,
   Context |-> <<Field("interaction_point", "interactionPoint", "u32")>>,
   Version |-> <<Field("version", "version", "String")>>,
   GoalSpecific |-> <<Field("interaction_point", "interactionPoint", "u32")>>]

\* enum DisplayInfo, #[serde(tag = "kind")]: the fields of each variant
DisplayInfoFields ==
  [CompilationOk |-> <<Field("warnings", "warnings", "String"),
                       Field("errors", "errors", "String")>>,
   Constraints |-> <<>>,
   AllGoalsWarnings |-> <<Field("goals", "goals", "unit"),
                          Field("warnings", "warnings", "String"),
                          Field("errors", "errors", "String")>>,
   Time |-> <<Field("time", "time", "String")>>,
   IntroNotFound |-> <<>>,
   IntroConstructorUnknown |-> <<>>,
   Auto |-> <<Field("info", "info", "String")>>,
   ModuleContents |-> <<>>,
   SearchAbout |-> <<Field("search", "search", "String")>>,
   WhyInScope |-> <<>>,
   NormalForm |-> <<>>,
   InferredType |-> <<>>,
   Context |-> <<Field("interaction_point", "interactionPoint", "u32")>>,
   Version |-> <<Field("version", "version", "String")>>,
   GoalSpecific |-> <<Field("interaction_point", "interactionPoint", "u32")>>]

\* enum Resp, #[serde(tag = "kind")]: the fields of each variant
RespFields ==
  [HighlightingInfo |-> <<Field("filepath", "filepath", "String"),
                          Field("direct", "direct", "bool")>>,
   Status |-> <<Field("status", "status", "Status")>>,
   JumpToError |-> <<Field("filepath", "filepath", "String"),
                     Field("position", "position", "i32")>>,
   InteractionPoints |->
     <<Field("interaction_points", "interactionPoints", "VecU32")>>,
   GiveAction |-> <<Field("give_result", "giveResult", "bool"),
                    Field("interaction_point", "interactionPoint", "u32")>>,
   MakeCase |-> <<Field("variant", "variant", "MakeCase"),
                  Field("interaction_point", "interactionPoint", "u32"),
                  Field("clauses", "clauses", "VecString")>>,
   SolveAll |-> <<>>,
   DisplayInfo |-> <<Field("info", "info", "DisplayInfo")>>,
   RunningInfo |-> <<Field("debug_level", "debugLevel", "i32"),
                     Field("message", "message", "String")>>,
   ClearRunningInfo |-> <<>>,
   ClearHighlighting |-> <<>>,
   DoneAborting |-> <<>>]

\* the tag of the internally tagged enums
TagKey == "kind"

\* a deserializer that looks a field up under its name in the source
WireKey_unrenamed(f) == f.rust

\* the key a field is written to and read from
WireKey(f) == f.wire

\* a decoder that falls back to a variant without fields for a tag it does
\* not know
VariantOf_lenient(table, members) ==
  IF TagKey \in DOMAIN members /\ members[TagKey].t = "str"
       /\ members[TagKey].v \in DOMAIN table
    THEN <<members[TagKey].v>>
    ELSE <<CHOOSE n \in DOMAIN table : table[n] = <<>> >>

\* tag dispatch: the variant the object names, if it names one
VariantOf(table, members) ==
  IF TagKey \in DOMAIN members /\ members[TagKey].t = "str"
       /\ members[TagKey].v \in DOMAIN table
    THEN <<members[TagKey].v>>
    ELSE <<>>

DecErr == [ok |-> FALSE, val |-> <<>>]
DecOk(val) == [ok |-> TRUE, val |-> val]

FieldIndex(fields, rust) == CHOOSE i \in 1..Len(fields) : fields[i].rust = rust
FieldNames(fields) == {fields[i].rust : i \in 1..Len(fields)}

RECURSIVE FromJson(_, _)
\* derive(Deserialize): the value of type ty the JSON value j decodes to
FromJson(ty, j) ==
  LET \* a struct or a struct variant: every field present and decodable,
      \* keys that are no field ignored
      FromStruct(fields, members) ==
        LET got == [i \in 1..Len(fields) |->
                      IF WireKey(fields[i]) \in DOMAIN members
                        THEN FromJson(fields[i].ty, members[WireKey(fields[i])])
                        ELSE DecErr]
        IN  IF \A i \in 1..Len(fields) : got[i].ok
              THEN DecOk([n \in FieldNames(fields) |->
                            got[FieldIndex(fields, n)].val])
              ELSE DecErr
      FromEnum(table) ==
        IF j.t # "obj" THEN DecErr
        ELSE LET vn == VariantOf(table, j.v)
             IN  IF vn = <<>> THEN DecErr
                 ELSE LET body == FromStruct(table[vn[1]], j.v)
                      IN  IF body.ok
                            THEN DecOk([variant |-> vn[1], fields |-> body.val])
                            ELSE DecErr
      FromVec(elem) ==
        IF j.t # "arr" THEN DecErr
        ELSE LET got == [i \in 1..Len(j.v) |-> FromJson(elem, j.v[i])]
             IN  IF \A i \in 1..Len(j.v) : got[i].ok
                   THEN DecOk([i \in 1..Len(j.v) |-> got[i].val])
                   ELSE DecErr
  IN  CASE ty = "bool" -> IF j.t = "bool" THEN DecOk(j.v) ELSE DecErr
        [] ty = "u32" -> IF j.t = "num" /\ j.v >= 0 THEN DecOk(j.v) ELSE DecErr
        [] ty = "i32" -> IF j.t = "num" THEN DecOk(j.v) ELSE DecErr
        [] ty = "String" -> IF j.t = "str" THEN DecOk(j.v) ELSE DecErr
        [] ty = "unit" -> IF j.t = "null" THEN DecOk(<<>>) ELSE DecErr
        [] ty = "VecU32" -> FromVec("u32")
        [] ty = "VecString" -> FromVec("String")
        [] ty = "MakeCase" ->
             IF j.t = "str" /\ j.v \in MakeCaseVariants THEN DecOk(j.v)
             ELSE DecErr
        [] ty = "Status" ->
             IF j.t = "obj" THEN FromStruct(StatusFields, j.v) ELSE DecErr
        [] ty = "DisplayInfo" -> FromEnum(DisplayInfoFields)
        [] ty = "Resp" -> FromEnum(RespFields)

RECURSIVE ToJson(_, _)
\* derive(Serialize): the JSON value written for the value val of type ty
ToJson(ty, val) ==
  LET ToStruct(fields, fv) ==
        [key \in {WireKey(fields[i]) : i \in 1..Len(fields)} |->
           LET f == fields[CHOOSE i \in 1..Len(fields) : WireKey(fields[i]) = key]
           IN  ToJson(f.ty, fv[f.rust])]
      ToEnum(table) ==
        LET body == ToStruct(table[val.variant], val.fields)
        IN  JObj([key \in DOMAIN body \cup {TagKey} |->
                    IF key = TagKey THEN JStr(val.variant) ELSE body[key]])
  IN  CASE ty \in {"bool"} -> JBool(val)
        [] ty \in {"u32", "i32"} -> JNum(val)
        [] ty \in {"String", "MakeCase"} -> JStr(val)
        [] ty = "unit" -> JNull
        [] ty = "VecU32" -> JArr([i \in 1..Len(val) |-> JNum(val[i])])
        [] ty = "VecString" -> JArr([i \in 1..Len(val) |-> JStr(val[i])])
        [] ty = "Status" -> JObj(ToStruct(StatusFields, val))
        [] ty = "DisplayInfo" -> ToEnum(DisplayInfoFields)
        [] ty = "Resp" -> ToEnum(RespFields)

(* the values the decoder is run on *)
DecIds == {0, 233}
DecClauses == {<<>>, <<"f a = a">>}

StatusValues ==
  {[show_implicit_arguments |-> a, checked |-> b] : a, b \in BOOLEAN}

RespValue(variant, fields) == [variant |-> variant, fields |-> fields]

\* values of the fully modelled shapes
RoundTripValues ==
  {[ty |-> "Status", val |-> st] : st \in StatusValues}
  \cup {[ty |-> "Resp", val |-> RespValue("Status", [status |-> st])] :
          st \in StatusValues}
  \cup {[ty |-> "Resp",
         val |-> RespValue("MakeCase",
                   [variant |-> mc, interaction_point |-> ip, clauses |-> cl])] :
          mc \in MakeCaseVariants, ip \in DecIds, cl \in DecClauses}
  \cup {[ty |-> "Resp",
         val |-> RespValue("GiveAction",
                   [give_result |-> gr, interaction_point |-> ip])] :
          gr \in BOOLEAN, ip \in DecIds}
  \cup {[ty |-> "Resp",
         val |-> RespValue("InteractionPoints", [interaction_points |-> ips])] :
          ips \in SeqsUpTo(DecIds, 2)}

\* lines that were not written by the serializer
RawJson ==
  {JObj([kind |-> JStr("Constraints")]),
   JObj([kind |-> JStr("DisplayInfo"),
         info |-> JObj([kind |-> JStr("Constraints")])]),
   JObj([kind |-> JStr("Bogus")]),
   JObj([kind |-> JStr("Bogus"), status |-> JObj([checked |-> JBool(TRUE)])]),
   JObj([kind |-> JStr("status")]),
   JObj([kind |-> JNum(1)]),
   JObj([status |-> JObj([showImplicitArguments |-> JBool(FALSE),
                          checked |-> JBool(TRUE)])]),
   JObj([interactionPoints |-> JArr(<<JNum(0)>>)]),
   JObj([kind |-> JStr("DoneAborting")]),
   JObj([kind |-> JStr("DoneAborting"), extra |-> JNum(1)]),
   JObj([kind |-> JStr("GiveAction"), giveResult |-> JBool(TRUE)]),
   JObj([kind |-> JStr("GiveAction"), give_result |-> JBool(TRUE),
         interaction_point |-> JNum(0)]),
   JStr("DoneAborting"),
   JArr(<<>>)}

\* a run of the decoder: a value to write and read back, or a raw line
DecCalls ==
  {[ty |-> r.ty, val |-> <<r.val>>, json |-> <<>>] : r \in RoundTripValues}
  \cup {[ty |-> ty, val |-> <<>>, json |-> <<j>>] :
          ty \in {"Resp", "DisplayInfo"}, j \in RawJson}

NotDecoded == [ok |-> FALSE, val |-> <<"not decoded">>]

DecInit ==
  /\ decIn \in DecCalls
  /\ decOut = NotDecoded
  /\ encIn = <<>>
  /\ encOut = NotEncoded
  /\ plain = TRUE
  /\ ReplInit

\* serde_json::to_string of the value
Serialize ==
  /\ decIn.json = <<>>
  /\ decIn' = [decIn EXCEPT !.json = <<ToJson(decIn.ty, decIn.val[1])>>]
  /\ UNCHANGED <<decOut, encIn, encOut>>
  /\ UNCHANGED <<replVars, procVars>>

\* serde_json::from_str of the line
Deserialize ==
  /\ decIn.json # <<>> /\ decOut = NotDecoded
  /\ decOut' = FromJson(decIn.ty, decIn.json[1])
  /\ UNCHANGED <<decIn, encIn, encOut>>
  /\ UNCHANGED <<replVars, procVars>>

DecNext == Serialize \/ Deserialize

SpecDec == DecInit /\ [][DecNext]_vars

(* ------------------------------ observations -------------------------- *)
IsPrefix(a, b) == Len(a) <= Len(b) /\ SubSeq(b, 1, Len(a)) = a
Range(f) == {f[i] : i \in DOMAIN f}

\* commands written and lines printed while the current line is processed
ThisLineCmds == SubSeq(written, markW + 1, Len(written))
ThisLineOut == SubSeq(output, markO + 1, Len(output))

IsGoalTypeCmd(c) == c.tag = "GoalType"
QueryCmds == SelectSeq(ThisLineCmds, IsGoalTypeCmd)
\* ids of the GoalType queries of the current reload, in the order written
QueryIds == [i \in 1..Len(QueryCmds) |-> QueryCmds[i].input[1].id]

IsGoalEntry(e) == e.fmt = "?{:?}: {}"
GoalEntries == SelectSeq(ThisLineOut, IsGoalEntry)
\* ids of the goal entries printed by the current reload, in order
ReportIds == [i \in 1..Len(GoalEntries) |-> GoalEntries[i].id[1]]

Rank(s) == CASE s = "Running" -> 1 [] s = "Aborting" -> 2 [] OTHER -> 3

(* ------------------------------ claims -------------------------------- *)

\* C1: half-duplex conversation.  A command is written only when the answer
\* to the command written before it has been read: no GoalType query leaves
\* before the CurrentGoal answer to the previous one was read, and nothing is
\* written while an Abort's DoneAborting is unread.
C1_HalfDuplex == [][written' # written => pending = "None"]_vars

\* a reload that queried two goals, one after the other, and then aborted
C1_Witness ==
  /\ Len(QueryIds) = 2
  /\ written[Len(written)].tag = "Abort"
  /\ pending = "None"

\* C2: after Abort, shutdown is not invoked until DoneAborting (or the end
\* of the response stream) has been observed.
C2_ShutdownAfterDoneAborting == pc = "shutdown" => abortAcked

\* C3: the session lifecycle only moves forward, and once the session is
\* Stopped nothing is written to it or read from it; the call the REPL makes
\* on it then ends the loop with an error.
C3_ForwardOnly ==
  [][/\ Rank(sess) <= Rank(sess')
     /\ sess = "Stopped" =>
          /\ written' = written
          /\ Len(out') >= Len(out)
          /\ (pc = "line" /\ pc' # pc) => pc' = "failed"]_vars

\* a line entered after shutdown ended in an error
C3_Witness == sess = "Stopped" /\ pc = "failed" /\ nlines >= 2

\* C4: for the list next_goals returned, reload writes one GoalType query per
\* id in the returned order and prints one goal entry per id in that order,
\* after `Goals:`; a query leaves only when the entry before it is printed.
C4_OnePerGoalInOrder ==
  goals.st = "ok" =>
    /\ IsPrefix(QueryIds, iis)
    /\ IsPrefix(ReportIds, QueryIds)
    /\ Len(QueryIds) <= Len(ReportIds) + 1
    /\ ThisLineOut[1] = Print_line("stdout", "Goals:", <<>>, "")
    /\ k > Len(iis) => QueryIds = iis /\ ReportIds = iis
    /\ (k > Len(iis) /\ iis # <<>>) => Len(ThisLineOut) = 1 + Len(iis)

\* a finished listing of two goals that were not reported in ascending order
C4_Witness ==
  /\ goals.st = "ok" /\ Len(iis) = 2 /\ iis[1] > iis[2]
  /\ k > Len(iis) /\ ReportIds = iis
  /\ pc = "prompt"

\* C5: when next_goals succeeds with an empty list, reload prints
\* `No goals.` and writes no GoalType query.
C5_NoGoals ==
  (goals.st = "ok" /\ goals.iis = <<>>) =>
    /\ QueryIds = <<>>
    /\ GoalEntries = <<>>
    /\ Len(ThisLineOut) = 2
    /\ ThisLineOut[2] = Print_line("stdout", "No goals.", <<>>, "")

\* a reload over an empty list that ran to its end
C5_Witness ==
  /\ goals.st = "ok" /\ goals.iis = <<>>
  /\ sentIps # <<>> /\ sentIps[Len(sentIps)] = <<>>
  /\ pc = "prompt"

\* C6: when next_goals returns the failure branch, reload prints the error
\* text the process sent, writes no GoalType query and prints no goal entry.
C6_FailureBranch ==
  goals.st = "err" =>
    /\ sentErr # <<>>
    /\ ThisLineOut = <<Print_line("stderr", "Errors:", <<>>, ""),
                       Print_line("stderr", "{}", <<>>, sentErr[Len(sentErr)])>>
    /\ QueryIds = <<>>
    /\ GoalEntries = <<>>

\* a reload that took the failure branch and ran to its end
C6_Witness == goals.st = "err" /\ sentErr # <<>> /\ pc = "prompt"

\* C7: every id in a GoalType query of a reload is an element of the
\* InteractionPoints list the process sent for that reload, and the list the
\* reload works on is that list.
C7_IdsFromThisReload ==
  /\ \A j \in 1..Len(QueryIds) :
       /\ goals.st = "ok"
       /\ sentIps # <<>>
       /\ QueryIds[j] \in Range(sentIps[Len(sentIps)])
  /\ goals.st = "ok" => iis = sentIps[Len(sentIps)]

\* a query for an id that is not the position it stands at
C7_Witness ==
  /\ Len(QueryIds) = 1
  /\ QueryIds[1] = 1
  /\ sentIps[Len(sentIps)] = <<1>>

\* C8: the line "exit" issues Abort, then shutdown, and ends the loop.
C8_ExitTerminates ==
  lineTxt = <<"exit">> =>
    /\ IsPrefix(ThisLineCmds, <<Cmd_Abort>>)
    /\ pc # "prompt"

\* C9: a line that is none of define, give, reload, exit causes no command
\* to be written to the process.
C9_UnrecognizedNotSent == lineTxt = <<"foo">> => ThisLineCmds = <<>>

\* C10: after an external compilation error the session continues: the loop
\* prompts again with the session still Running.
C10_RunningAfterExternalError ==
  (goals.st = "err" /\ pc = "prompt") => sess = "Running"

\* C11: while list_goals waits for a goal's CurrentGoal answer, a response
\* line that does not decode is skipped: the wait goes on, and the decode
\* error ends neither the reload nor the loop.
C11_DecodeErrorSkipped ==
  [][(pc = "wait_goal" /\ out # <<>> /\ IsDecodeError(Head(out))
        /\ out' = Tail(out))
     => pc' = "wait_goal"]_vars

\* a decoded response that is a DisplayInfo, GoalSpecific, CurrentGoal
IsCurrentGoalAnswer(r) ==
  r.kind = "DisplayInfo" /\ r.info = "GoalSpecific" /\ r.goal_info = "CurrentGoal"

\* the id of the GoalType query written last
LastQueryId == written[Len(written)].input[1].id

\* C18: ordinal correlation.  With the process answering in the order it
\* received the commands, a goal entry is printed only on reading a
\* GoalSpecific/CurrentGoal DisplayInfo; it carries the id of the query
\* written last and the type of that response, and that response is the
\* answer to this very query (it names the same id).  Every other response
\* read during the wait is dropped: nothing is printed, nothing is written,
\* the wait goes on.  So every entry printed for an id shows that id's type.
C18_OrdinalCorrelation ==
  /\ [][(pc = "wait_goal" /\ output' # output) =>
          /\ out # <<>> /\ IsCurrentGoalAnswer(Head(out))
          /\ out' = Tail(out)
          /\ written[Len(written)].tag = "GoalType"
          /\ Head(out).interaction_point = <<LastQueryId>>
          /\ output' = Append(output,
               Print_line("stdout", "?{:?}: {}", <<LastQueryId>>, Head(out).text))]_vars
  /\ [][(pc = "wait_goal" /\ out # <<>> /\ out' = Tail(out)
           /\ Head(out).kind # "Malformed" /\ ~IsCurrentGoalAnswer(Head(out))) =>
          (pc' = "wait_goal" /\ output' = output /\ written' = written
             /\ k' = k)]_vars
  /\ [](\A i \in 1..Len(GoalEntries) :
          GoalEntries[i].text = GoalTypeOf(GoalEntries[i].id[1]))

\* two goals of different types, reported in the order 1, 0, a GoalSpecific
\* response that is no CurrentGoal having been read and dropped on the way
C18_Witness ==
  /\ Len(GoalEntries) = 2
  /\ GoalEntries[1].id = <<1>> /\ GoalEntries[1].text = "Nat"
  /\ GoalEntries[2].id = <<0>> /\ GoalEntries[2].text = "A -> B"
  /\ chatter = 1
  /\ out = <<>>
  /\ pc = "list_goals"

\* the REPL is about to call ReplState::command
CommandCall ==
  pc = "line" \/ (pc = "list_goals" /\ k <= Len(iis)) \/ pc = "finish"

\* the call the REPL is about to make returns an I/O error: a command to a
\* process that has exited, a read at the end of the response stream
IOErrorDue ==
  \/ CommandCall /\ sess # "Stopped" /\ exited
  \/ pc \in {"next_goals", "wait_goal"} /\ StreamEnd

\* C20: an I/O error returned by command, next_goals, next_display_info or
\* shutdown during a reload unwinds: the step that gets it writes nothing,
\* prints nothing and ends the REPL loop with the error; after that nothing
\* is written any more (no re-send, no query for the remaining goals, no
\* Abort) and no further line is read.
C20_IOErrorUnwinds ==
  /\ [][(IOErrorDue /\ pc' # pc) =>
          (pc' = "failed" /\ written' = written /\ output' = output)]_vars
  /\ [][pc = "shutdown" =>
          /\ written' = written
          /\ pc' = "failed" => (StreamEnd /\ output' = output)]_vars
  /\ [][pc = "failed" =>
          (pc' = "failed" /\ written' = written /\ output' = output
             /\ nlines' = nlines)]_vars

\* the process exited after the first of two GoalType queries: the loop
\* has ended with the error, the second goal unqueried, no Abort written
C20_Witness ==
  /\ pc = "failed" /\ exited /\ out = <<>>
  /\ goals.st = "ok" /\ Len(iis) = 2 /\ k = 1
  /\ Len(QueryIds) = 1
  /\ written[Len(written)].tag = "GoalType"
  /\ \A i \in 1..Len(written) : written[i].tag # "Abort"

\* list_goals is running
Listing == pc \in {"list_goals", "wait_goal"}

C21_OkAfterShutdown ==
  pc = "done" =>
    /\ sess = "Stopped"
    /\ \E i \in 1..Len(written) : written[i].tag = "Abort"

(* ------------------------------ encoder claims ------------------------ *)
Encoded == encOut.line # <<>>

\* the call encoded Cmd::give(GoalInput::no_range(id, code))
IsGiveNoRange ==
  /\ encIn.command.tag = "Give"
  /\ encIn.command.force = <<"WithoutForce">>
  /\ encIn.command.input[1].range = Range_NoRange

RECURSIVE Depth(_, _)
\* the parentheses open after the first n lexemes of ts
Depth(ts, n) ==
  IF n = 0 THEN 0
  ELSE Depth(ts, n - 1)
         + (IF ts[n] = "(" THEN 1 ELSE IF ts[n] = ")" THEN -1 ELSE 0)

Balanced(ts) ==
  /\ \A n \in 1..Len(ts) : Depth(ts, n) >= 0
  /\ Depth(ts, Len(ts)) = 0

Newlines(ts) == Cardinality({n \in 1..Len(ts) : ts[n] = "\n"})

C13_BalancedApplication ==
  Encoded =>
    \/ Len(encOut.cmd) = 1 /\ encOut.cmd[1] \notin {"(", ")", Sp}
    \/ /\ encOut.cmd[1] = "("
       /\ encOut.cmd[Len(encOut.cmd)] = ")"
       /\ Balanced(encOut.cmd)

\* C14: the envelope is `IOTCM`, the file path, the level, the method and
\* the encoded command, in that order; to_string yields one line, its only
\* newline at the end; IOTCM::simple fills in NonInteractive and Direct.
C14_Envelope ==
  Encoded =>
    LET l == encOut.line IN
    /\ SubSeq(l, 1, 8) =
         <<"IOTCM", Sp, Quote(encIn.file), Sp,
           IF encIn.ctor = "simple" THEN "NonInteractive" ELSE encIn.level[1],
           Sp,
           IF encIn.ctor = "simple" THEN "Direct" ELSE encIn.method[1],
           Sp>>
    /\ SubSeq(l, 9, Len(l) - 1) = encOut.cmd
    /\ l[Len(l)] = "\n"
    /\ Newlines(l) = 1

\* an envelope built by IOTCM::simple and one with other settings
C14_Witness ==
  /\ Encoded
  /\ encIn.ctor = "simple"
  /\ encIn.command.tag = "Load"
  /\ encIn.command.flags = <<<<>>>>
  /\ Join(encOut.line) =
       "IOTCM \"x.agda\" NonInteractive Direct ( Cmd_load \"x.agda\" [] )\n"

(* ------------------------------ decoder claims ------------------------ *)
Decoded == decOut # NotDecoded

\* the line being decoded is a JSON object
LineIsObject == decIn.json # <<>> /\ decIn.json[1].t = "obj"

\* the variants of Resp
RespVariantNames ==
  {"HighlightingInfo", "Status", "JumpToError", "InteractionPoints",
   "GiveAction", "MakeCase", "SolveAll", "DisplayInfo", "RunningInfo",
   "ClearRunningInfo", "ClearHighlighting", "DoneAborting"}

\* the object names a variant of Resp in its kind field
NamesRespVariant(members) ==
  /\ "kind" \in DOMAIN members
  /\ members["kind"].t = "str"
  /\ members["kind"].v \in RespVariantNames

\* the object {"kind": name} and nothing else
IsBareKind(j, name) ==
  /\ j.t = "obj"
  /\ DOMAIN j.v = {"kind"}
  /\ j.v["kind"].t = "str"
  /\ j.v["kind"].v = name

\* C15: decoding as a Resp a JSON object whose kind is not the name of a
\* Resp variant, or that has no kind field, fails with a decode error; no
\* Resp value comes out of it.
C15_UnknownKindRejected ==
  (Decoded /\ decIn.ty = "Resp" /\ LineIsObject
     /\ ~NamesRespVariant(decIn.json[1].v))
    => ~decOut.ok

\* an object with an unknown kind and a payload that would fit a variant
C15_Witness ==
  /\ Decoded /\ decIn.ty = "Resp" /\ LineIsObject
  /\ DOMAIN decIn.json[1].v = {"kind", "status"}
  /\ decIn.json[1].v["kind"] = JStr("Bogus")
  /\ decOut = DecErr

\* C16 as stated: the response decoder, given the object
\* {"kind": "Constraints"}, succeeds and yields the Constraints variant.
C16_ConstraintsAsResp ==
  (Decoded /\ decIn.ty = "Resp" /\ LineIsObject
     /\ IsBareKind(decIn.json[1], "Constraints"))
    => (decOut.ok /\ decOut.val.variant = "Constraints")

\* C16 amended: Constraints is a variant of DisplayInfo. {"kind":
\* "Constraints"} decodes to it as a DisplayInfo, and so as the info of a
\* DisplayInfo response; as a response of its own it is a decode error.
C16_ConstraintsAsDisplayInfo ==
  /\ (Decoded /\ decIn.ty = "DisplayInfo" /\ LineIsObject
        /\ IsBareKind(decIn.json[1], "Constraints"))
       => (decOut.ok /\ decOut.val.variant = "Constraints")
  /\ (Decoded /\ decIn.ty = "Resp" /\ LineIsObject
        /\ DOMAIN decIn.json[1].v = {"kind", "info"}
        /\ IsBareKind(JObj([kind |-> decIn.json[1].v["kind"]]), "DisplayInfo")
        /\ IsBareKind(decIn.json[1].v["info"], "Constraints"))
       => (decOut.ok /\ decOut.val.variant = "DisplayInfo"
             /\ decOut.val.fields["info"].variant = "Constraints")
  /\ (Decoded /\ decIn.ty = "Resp" /\ LineIsObject
        /\ IsBareKind(decIn.json[1], "Constraints"))
       => ~decOut.ok

\* {"kind": "Constraints"} decoded as a DisplayInfo
C16_Witness ==
  /\ Decoded /\ decIn.ty = "DisplayInfo" /\ LineIsObject
  /\ IsBareKind(decIn.json[1], "Constraints")
  /\ decOut.ok
  /\ decOut.val.variant = "Constraints"

\* the keys of the serialization of a fully modelled shape
ShapeKeys(ty, val) ==
  CASE ty = "Status" -> {"showImplicitArguments", "checked"}
    [] ty = "Resp" /\ val.variant = "Status" -> {"kind", "status"}
    [] ty = "Resp" /\ val.variant = "MakeCase" ->
         {"kind", "variant", "interactionPoint", "clauses"}
    [] ty = "Resp" /\ val.variant = "GiveAction" ->
         {"kind", "giveResult", "interactionPoint"}
    [] ty = "Resp" /\ val.variant = "InteractionPoints" ->
         {"kind", "interactionPoints"}

\* C17: for every value r of the shapes Status, Resp::Status,
\* Resp::MakeCase, Resp::GiveAction and Resp::InteractionPoints, the JSON
\* written for r has the variant name in field kind and camelCase payload
\* keys, and decoding it yields r.
C17_RoundTrip ==
  /\ (decIn.val # <<>> /\ decIn.json # <<>>) =>
       /\ decIn.json[1].t = "obj"
       /\ DOMAIN decIn.json[1].v = ShapeKeys(decIn.ty, decIn.val[1])
       /\ decIn.ty = "Resp" =>
            decIn.json[1].v["kind"] = JStr(decIn.val[1].variant)
  /\ (decIn.val # <<>> /\ Decoded) =>
       (decOut.ok /\ decOut.val = decIn.val[1])

\* the MakeCase response of the serialization test, read back
C17_Witness ==
  /\ decIn.val # <<>> /\ Decoded /\ decOut.ok
  /\ decIn.ty = "Resp"
  /\ decIn.val[1].variant = "MakeCase"
  /\ decOut.val.variant = "MakeCase"
  /\ decOut.val.fields["interaction_point"] = 233
  /\ decOut.val.fields["clauses"] = <<"f a = a">>
  /\ decOut.val.fields["variant"] = "Function"
  /\ DOMAIN decIn.json[1].v = {"kind", "variant", "interactionPoint", "clauses"}

====
